---- MODULE Spec2Model ----
(***************************************************************************)
(* Model of the Postgres-backed conversation cache                         *)
(* (ols/src/cache/postgres_cache_.py).                                     *)
(*                                                                         *)
(* The connection is switched to autocommit at the end of connect(), so    *)
(* every cursor.execute() is a transaction of its own: a statement is one  *)
(* atomic step on the table, and the statements of one call can be         *)
(* separated by the statements of another worker's call or cut short by a  *)
(* psycopg2.DatabaseError.                                                 *)
(***************************************************************************)
EXTENDS Integers, Sequences, FiniteSets, TLC

\* ---------------------------------------------------------------- bounds --
MaxCapacity == 2
MaxCalls == 4
MaxFailures == 1
MaxConcCalls == 3
MaxWarmCalls == 2
MaxConnCalls == 2
MaxSessionCalls == 2
MaxQuota == 3
MaxTokens == 2

\* ------------------------------------------------------------- universes --
\* Three primary keys: two conversations of one user, and the id of one of
\* them again under a second user.
Users == {"u1", "u2"}
Convs == {"c1", "c2"}
Keys == (Users \X Convs) \ {<<"u2", "c2">>}
Procs == {"w1", "w2"}
\* The n-th writing call passes the n-th turn and the n-th topic summary:
\* every call's data is distinct, so an entry that is lost, doubled, moved
\* or attached to the wrong row shows.  Strings are named by numbers; topic
\* 0 is the default "".
Turn(n) == [role |-> IF n % 2 = 1 THEN "human" ELSE "ai", content |-> n]
Summary(n) == n
Capacities == (0 - 1) .. MaxCapacity

\* The identifiers in canonical UUID form; u2 and c2 are not.
Suids == {"u1", "c1"}
None == <<>>
Some(x) == <<x>>
NoKey == <<>>
NoEntry == [role |-> "", content |-> 0]
NoTable == <<>>

VARIABLES
    connection, \* self.connection: absent (None) or a handle, open/closed/broken
    link,       \* whether the backend can be reached
    was,        \* history: self.connection when the last connect() began
    polled,     \* history: what the last connection.poll() gave
    autocommit, \* connection.autocommit of the handle
    status,     \* transaction status of the handle's backend session
    quota,      \* remaining token budget of each subject
    policy,     \* what consume_tokens does with a cost above the balance
    capacity,   \* self.capacity
    table,      \* the cache table: primary key -> row
    now,        \* the backend clock read by CURRENT_TIMESTAMP (microsecond
                \* resolution: each INSERT or UPDATE reads a later value)
    pc,         \* position of each worker inside its current call
    op,         \* the method the worker is running
    key,        \* (user_id, conversation_id) argument
    entry,      \* cache_entry argument
    topic,      \* topic_summary argument
    skip,       \* skip_user_id_check argument
    old_value,  \* local old_value of insert_or_append
    count,      \* local count of _cleanup
    result,     \* what the call returned or raised
    executed,   \* number of cursor.execute() calls the call has made
    calls,      \* number of writing calls started so far
    failures,   \* number of statements that failed so far
    before,     \* history: the table when the worker's call started
    evicted,    \* history: the rows removed by the worker's eviction DELETE
    hist,       \* history: entries written to each key since its row was created
    dirty,      \* history: a call on the key raised after its write committed
    written,    \* history: the clock value of the last write to each key
    inserted,   \* history: keys created so far, in creation order
    pure        \* history: so far only successful creations of distinct keys

locals == <<pc, op, key, entry, topic, skip, old_value, count, result, executed>>
ghost == <<before, evicted, hist, dirty, written, inserted, pure>>
conn == <<connection, link, was, polled, autocommit>>
limiter == <<quota, policy>>
vars == <<capacity, conn, status, limiter, table, now, locals, calls, failures, ghost>>

\* ------------------------------------------------- serialisation helpers --
to_dict(e) == [type |-> e.role, content |-> e.content]
from_dict(d) == [role |-> d.type, content |-> d.content]
\* Faulty variant: the encoder writes every entry with the same type tag
json_dumps_drops_role(l) == [i \in 1..Len(l) |-> <<"human", l[i].content>>]

json_dumps(l) == [i \in 1..Len(l) |-> <<l[i].type, l[i].content>>]

json_loads(b) == [i \in 1..Len(b) |-> [type |-> b[i][1], content |-> b[i][2]]]

\* A value column holding SQL NULL, and one holding bytes that are not the
\* JSON text of a list of entries.
NULL == <<(<<>>)>>
Garbage == <<(<<"\\xff">>)>>
WellFormed(b) == \A i \in DOMAIN b : Len(b[i]) = 2

\* ------------------------------------------------------- small utilities --
Min(a, b) == IF a < b THEN a ELSE b
Range(f) == {f[i] : i \in DOMAIN f}
Without(tbl, S) == [j \in (DOMAIN tbl) \ S |-> tbl[j]]
Return(v) == [kind |-> "return", val |-> v]
Raise(e) == [kind |-> e, val |-> None]
NoResult == [kind |-> "none", val |-> None]

\* psycopg2.DatabaseError and the subclasses the statements can raise
DatabaseError ==
    {"DatabaseError", "OperationalError", "IntegrityError", "ProgrammingError"}

\* ------------------------------------------------------- SQL statements --
\* Each statement maps the table to the cursor state it leaves: the new
\* table, whether the statement produced a result set, and its rows.
Cursor(tbl, described, rows) ==
    [tbl |-> tbl, described |-> described, rows |-> rows]

\* Faulty variant: the WHERE clause forgets conversation_id
SELECT_ignores_conversation(tbl, k) ==
    LET same == {j \in DOMAIN tbl : j[1] = k[1]}
    IN  Cursor(tbl, TRUE,
               IF same # {}
               THEN <<(<<tbl[CHOOSE j \in same : TRUE].value>>)>>
               ELSE <<>>)

SELECT_CONVERSATION_HISTORY_STATEMENT(tbl, k) ==
    Cursor(tbl, TRUE, IF k \in DOMAIN tbl THEN <<(<<tbl[k].value>>)>> ELSE <<>>)

\* Faulty variant: the SET clause leaves updated_at alone
UPDATE_keeps_timestamp(tbl, k, value, ts) ==
    Cursor(IF k \in DOMAIN tbl THEN [tbl EXCEPT ![k].value = value] ELSE tbl,
           FALSE, <<>>)

\* Faulty variant: the WHERE clause forgets user_id
UPDATE_ignores_user(tbl, k, value, ts) ==
    Cursor([j \in DOMAIN tbl |->
               IF j[2] = k[2]
               THEN [tbl[j] EXCEPT !.value = value, !.updated_at = ts]
               ELSE tbl[j]],
           FALSE, <<>>)

\* Faulty variant: the SET clause also clears topic_summary
UPDATE_clears_topic(tbl, k, value, ts) ==
    Cursor(IF k \in DOMAIN tbl
              THEN [tbl EXCEPT ![k].value = value, ![k].updated_at = ts,
                               ![k].topic_summary = 0]
              ELSE tbl,
           FALSE, <<>>)

UPDATE_CONVERSATION_HISTORY_STATEMENT(tbl, k, value, ts) ==
    Cursor(IF k \in DOMAIN tbl
              THEN [tbl EXCEPT ![k].value = value, ![k].updated_at = ts]
              ELSE tbl,
           FALSE, <<>>)

\* Faulty variant: the value column is left out of the INSERT
INSERT_without_value(tbl, k, value, topic_summary, ts) ==
    Cursor(tbl @@ (k :> [value |-> NULL,
                         topic_summary |-> topic_summary,
                         updated_at |-> ts]),
           FALSE, <<>>)

INSERT_CONVERSATION_HISTORY_STATEMENT(tbl, k, value, topic_summary, ts) ==
    Cursor(tbl @@ (k :> [value |-> value,
                         topic_summary |-> topic_summary,
                         updated_at |-> ts]),
           FALSE, <<>>)

QUERY_CACHE_SIZE(tbl) ==
    Cursor(tbl, TRUE, <<(<<Cardinality(DOMAIN tbl)>>)>>)

\* Faulty variant: ORDER BY updated_at DESC
OldestFirst_descending(tbl, n) ==
    { S \in SUBSET (DOMAIN tbl) :
        /\ Cardinality(S) = Min(n, Cardinality(DOMAIN tbl))
        /\ \A a \in S : \A b \in (DOMAIN tbl) \ S :
              tbl[a].updated_at >= tbl[b].updated_at }

\* The sets of primary keys that
\*   SELECT user_id, conversation_id FROM cache ORDER BY updated_at LIMIT n
\* can return: n rows (all rows, when there are fewer), none of them newer
\* than a row left out; rows with equal updated_at come in any order.
OldestFirst(tbl, n) ==
    { S \in SUBSET (DOMAIN tbl) :
        /\ Cardinality(S) = Min(n, Cardinality(DOMAIN tbl))
        /\ \A a \in S : \A b \in (DOMAIN tbl) \ S :
              tbl[a].updated_at <= tbl[b].updated_at }

\* Faulty variant: the rows are emptied instead of deleted
DELETE_empties_rows(tbl, S) ==
    Cursor([j \in DOMAIN tbl |->
               IF j \in S THEN [tbl[j] EXCEPT !.value = <<>>, !.topic_summary = 0]
               ELSE tbl[j]],
           FALSE, <<>>)

DELETE_CONVERSATION_HISTORY_STATEMENT(tbl, S) ==
    Cursor(Without(tbl, S), FALSE, <<>>)

DELETE_SINGLE_CONVERSATION_STATEMENT(tbl, k) ==
    Cursor(Without(tbl, {k}), FALSE, <<>>)

\* Faulty variant: ORDER BY updated_at, oldest first
NewestFirst_ascending(tbl, S) ==
    { s \in [1..Cardinality(S) -> S] :
        /\ \A i, j \in DOMAIN s : i # j => s[i] # s[j]
        /\ \A i, j \in DOMAIN s :
              i < j => tbl[s[i]].updated_at <= tbl[s[j]].updated_at }

\* The orders in which ORDER BY updated_at DESC can return the rows S.
NewestFirst(tbl, S) ==
    { s \in [1..Cardinality(S) -> S] :
        /\ \A i, j \in DOMAIN s : i # j => s[i] # s[j]
        /\ \A i, j \in DOMAIN s :
              i < j => tbl[s[i]].updated_at >= tbl[s[j]].updated_at }

LIST_CONVERSATIONS_STATEMENT(tbl, user_id) ==
    { Cursor(tbl, TRUE,
             [i \in DOMAIN s |-> <<s[i][2], tbl[s[i]].topic_summary>>]) :
        s \in NewestFirst(tbl, {j \in DOMAIN tbl : j[1] = user_id}) }

\* cursor.fetchone(): the next row, None when the result set is exhausted,
\* ProgrammingError ("no results to fetch") when the last statement
\* produced no result set.
fetchone(cur) ==
    IF ~cur.described THEN [exc |-> "ProgrammingError", row |-> None]
    ELSE IF cur.rows = <<>> THEN [exc |-> "", row |-> None]
    ELSE [exc |-> "", row |-> Some(Head(cur.rows))]

\* ------------------------------------------------------ private helpers --
\* None when there is no row; str(None, "utf-8") raises TypeError, and
\* UnicodeDecodeError and json.JSONDecodeError are both ValueErrors.
_select(tbl, k) ==
    LET value == fetchone(SELECT_CONVERSATION_HISTORY_STATEMENT(tbl, k)).row
    IN  IF value = None THEN [exc |-> "", val |-> None]
        ELSE IF value[1][1] = NULL THEN [exc |-> "TypeError", val |-> None]
        ELSE IF ~WellFormed(value[1][1]) THEN [exc |-> "ValueError", val |-> None]
        ELSE [exc |-> "", val |-> Some(json_loads(value[1][1]))]

check_suid(id) == id \in Suids

\* Cache.construct_key: the identifiers are checked unless the caller skips
\* the check.
construct_key(user_id, conversation_id, skip_user_id_check) ==
    IF ~skip_user_id_check /\ ~(check_suid(user_id) /\ check_suid(conversation_id))
    THEN [exc |-> "InvalidIdentifier", key |-> NoKey]
    ELSE [exc |-> "", key |-> <<user_id, conversation_id>>]

_update(tbl, k, value, ts) ==
    UPDATE_CONVERSATION_HISTORY_STATEMENT(tbl, k, value, ts).tbl

_insert(tbl, k, value, topic_summary, ts) ==
    INSERT_CONVERSATION_HISTORY_STATEMENT(tbl, k, value, topic_summary, ts).tbl

_delete(tbl, k) ==
    LET cur == DELETE_SINGLE_CONVERSATION_STATEMENT(tbl, k)
        f == fetchone(cur)
    IN  [tbl |-> cur.tbl, exc |-> f.exc, ret |-> f.row # None]

\* Faulty variant: the new entry goes to the front
append_in_front(l, x) == <<x>> \o l

\* old_value.append(value)
append(l, x) == Append(l, x)

\* Faulty variant: the branch test never sees an old value
Truthy_never(v) == FALSE

\* `if old_value:` -- None and the empty list both take the insert branch
Truthy(v) == v # None /\ v[1] # <<>>

\* Faulty variant: one row too few
Limit_one_short(n) == n - capacity - 1

\* limit = count - capacity of _cleanup
Limit(n) == n - capacity

\* ------------------------------------------------------------------ Init --
\* After construction: the table exists and is empty, no call is running.
InitCache ==
    /\ capacity \in Capacities
    /\ connection = "open"
    /\ link = "up"
    /\ was = "open"
    /\ polled = "POLL_OK"
    /\ autocommit = TRUE
    /\ status = "IDLE"
    /\ table = NoTable
    /\ now = 0
    /\ pc = [p \in Procs |-> "idle"]
    /\ op = [p \in Procs |-> "none"]
    /\ key = [p \in Procs |-> NoKey]
    /\ entry = [p \in Procs |-> NoEntry]
    /\ topic = [p \in Procs |-> 0]
    /\ skip = [p \in Procs |-> FALSE]
    /\ executed = [p \in Procs |-> 0]
    /\ old_value = [p \in Procs |-> None]
    /\ count = [p \in Procs |-> 0]
    /\ result = [p \in Procs |-> NoResult]
    /\ calls = 0
    /\ failures = 0
    /\ before = [p \in Procs |-> NoTable]
    /\ evicted = [p \in Procs |-> NoTable]
    /\ hist = [k \in Keys |-> <<>>]
    /\ dirty = [k \in Keys |-> FALSE]
    /\ written = [k \in Keys |-> 0]
    /\ inserted = <<>>
    /\ pure = TRUE

Subjects == {"s1", "s2"}
Policies == {"clamp", "fail"}

Init ==
    /\ InitCache
    /\ quota = [s \in Subjects |-> 0]
    /\ policy = "clamp"

AllIdle == \A q \in Procs : pc[q] = "idle"

\* History kept for the rows in S once they are gone.
Forget(S) ==
    /\ hist' = [k \in Keys |-> IF k \in S THEN <<>> ELSE hist[k]]
    /\ dirty' = [k \in Keys |-> IF k \in S THEN FALSE ELSE dirty[k]]
    /\ written' = [k \in Keys |-> IF k \in S THEN 0 ELSE written[k]]

\* A worker enters method o with its arguments bound.
Call(p, o, k, s, first) ==
    /\ pc[p] = "idle"
    /\ IF o \in {"get", "list"}
       THEN UNCHANGED calls
       ELSE calls < MaxCalls /\ calls' = calls + 1
    /\ pc' = [pc EXCEPT ![p] = first]
    /\ op' = [op EXCEPT ![p] = o]
    /\ key' = [key EXCEPT ![p] = k]
    /\ entry' = [entry EXCEPT ![p] =
                    IF o = "insert_or_append" THEN Turn(calls') ELSE NoEntry]
    /\ topic' = [topic EXCEPT ![p] =
                    IF o = "insert_or_append" THEN Summary(calls') ELSE 0]
    /\ skip' = [skip EXCEPT ![p] = s]
    /\ executed' = [executed EXCEPT ![p] = 0]
    /\ before' = [before EXCEPT ![p] = table]
    /\ UNCHANGED <<capacity, conn, status, limiter, table, now, old_value, count,
                   failures, evicted, hist, dirty, written, inserted, pure>>

\* The session after a statement: with autocommit the statement is committed
\* or rolled back by itself; without, it opens a transaction that stays
\* open, failed when the statement failed.
transaction_status(auto, ok) ==
    IF auto THEN "IDLE" ELSE IF ok THEN "INTRANS" ELSE "INERROR"

\* cursor.execute() is called once more.
Execute(p) ==
    /\ executed' = [executed EXCEPT ![p] = @ + 1]
    /\ status' = transaction_status(autocommit, TRUE)

\* The call ends: pc, result and (when given) the locals change.
Finish(p, r) ==
    /\ pc' = [pc EXCEPT ![p] = "done"]
    /\ result' = [result EXCEPT ![p] = r]

\* ------------------------------------------------------------------- get --
\* Faulty variant: the identifiers are not checked
get_unchecked(p) ==
    \E k \in Keys, s \in BOOLEAN :
        Call(p, "get", k, s, "get_select") /\ UNCHANGED result

\* The identifiers are checked first; a rejected call ends at once.
get(p) ==
    \E k \in Keys, s \in BOOLEAN :
        IF construct_key(k[1], k[2], s).exc # ""
        THEN /\ Call(p, "get", k, s, "done")
             /\ result' = [result EXCEPT ![p] =
                               Raise(construct_key(k[1], k[2], s).exc)]
        ELSE /\ Call(p, "get", k, s, "get_select")
             /\ UNCHANGED result

get_select(p) ==
    /\ pc[p] = "get_select"
    /\ Execute(p)
    /\ LET r == _select(table, key[p])
           value == r.val
       IN  Finish(p, IF r.exc # "" THEN Raise(r.exc)
                     ELSE IF value = None
                        THEN Return(<<>>)
                        ELSE Return([i \in 1..Len(value[1]) |->
                                        from_dict(value[1][i])]))
    /\ UNCHANGED <<capacity, conn, limiter, table, now, op, key, entry, topic, skip, old_value,
                   count, calls, failures, ghost>>

\* ------------------------------------------------------ insert_or_append --
\* skip_user_id_check is accepted and never looked at.
insert_or_append_with(p, flags) ==
    \E k \in Keys, s \in flags :
        Call(p, "insert_or_append", k, s, "select") /\ UNCHANGED result

insert_or_append(p) == insert_or_append_with(p, BOOLEAN)

insert_select(p) ==
    /\ pc[p] = "select"
    /\ Execute(p)
    /\ LET r == _select(table, key[p])
           v == r.val
       IN  IF r.exc # ""
           THEN Finish(p, Raise(r.exc)) /\ UNCHANGED old_value
           ELSE /\ old_value' = [old_value EXCEPT ![p] = v]
                /\ pc' = [pc EXCEPT ![p] =
                              IF Truthy(v) THEN "update" ELSE "insert"]
                /\ UNCHANGED result
    /\ UNCHANGED <<capacity, conn, limiter, table, now, op, key, entry, topic, skip, count,
                   calls, failures, ghost>>

insert_update(p) ==
    /\ pc[p] = "update"
    /\ Execute(p)
    /\ now' = now + 1
    /\ table' = _update(table, key[p],
                        json_dumps(append(old_value[p][1], to_dict(entry[p]))),
                        now')
    /\ written' = [written EXCEPT ![key[p]] =
                      IF key[p] \in DOMAIN table THEN now' ELSE @]
    /\ hist' = [hist EXCEPT ![key[p]] =
                   IF key[p] \in DOMAIN table THEN Append(@, entry[p]) ELSE @]
    /\ Finish(p, Return(None))
    /\ pure' = FALSE
    /\ inserted' = <<>>
    /\ UNCHANGED <<capacity, conn, limiter, op, key, entry, topic, skip, old_value, count, calls,
                   failures, before, evicted, dirty>>

insert_insert(p) ==
    /\ pc[p] = "insert"
    /\ Execute(p)
    /\ IF key[p] \in DOMAIN table
       THEN \* duplicate primary key: psycopg2.IntegrityError
            /\ Finish(p, Raise("CacheError"))
            /\ UNCHANGED <<table, now, ghost>>
       ELSE /\ now' = now + 1
            /\ table' = _insert(table, key[p],
                                json_dumps(<<to_dict(entry[p])>>),
                                topic[p], now')
            /\ written' = [written EXCEPT ![key[p]] = now']
            /\ pure' = (pure /\ key[p] \notin Range(inserted))
            /\ inserted' = IF pure' THEN Append(inserted, key[p]) ELSE <<>>
            /\ hist' = [hist EXCEPT ![key[p]] = <<entry[p]>>]
            /\ pc' = [pc EXCEPT ![p] = "count"]
            /\ UNCHANGED <<result, before, evicted, dirty>>
    /\ UNCHANGED <<capacity, conn, limiter, op, key, entry, topic, skip, old_value, count, calls,
                   failures>>

\* _cleanup, first statement: SELECT count(*)
cleanup_count(p) ==
    /\ pc[p] = "count"
    /\ Execute(p)
    /\ LET value == fetchone(QUERY_CACHE_SIZE(table)).row
           n == value[1][1]
       IN  /\ count' = [count EXCEPT ![p] = n]
           /\ IF Limit(n) > 0
              THEN /\ pc' = [pc EXCEPT ![p] = "evict"]
                   /\ UNCHANGED result
              ELSE Finish(p, Return(None))
    /\ UNCHANGED <<capacity, conn, limiter, table, now, op, key, entry, topic, skip, old_value,
                   calls, failures, ghost>>

\* _cleanup, second statement: DELETE ... ORDER BY updated_at LIMIT limit
cleanup_delete(p) ==
    /\ pc[p] = "evict"
    /\ Execute(p)
    /\ \E S \in OldestFirst(table, Limit(count[p])) :
        /\ table' = DELETE_CONVERSATION_HISTORY_STATEMENT(table, S).tbl
        /\ evicted' = [evicted EXCEPT ![p] = [j \in S |-> table[j]]]
        /\ Forget(S)
    /\ Finish(p, Return(None))
    /\ UNCHANGED <<capacity, conn, limiter, now, op, key, entry, topic, skip, old_value, count,
                   calls, failures, before, inserted, pure>>

\* ---------------------------------------------------------------- delete --
delete(p) ==
    \E k \in Keys : Call(p, "delete", k, FALSE, "delete") /\ UNCHANGED result

delete_execute(p) ==
    /\ pc[p] = "delete"
    /\ Execute(p)
    /\ LET r == _delete(table, key[p])
       IN  /\ table' = r.tbl
           /\ Finish(p, IF r.exc \in DatabaseError
                           THEN Raise("CacheError")
                           ELSE Return(<<r.ret>>))
    /\ Forget({key[p]})
    /\ pure' = FALSE
    /\ inserted' = <<>>
    /\ UNCHANGED <<capacity, conn, limiter, now, op, key, entry, topic, skip, old_value, count,
                   calls, failures, before, evicted>>

\* ------------------------------------------------------------------ list --
list(p) ==
    \E u \in Users : Call(p, "list", <<u>>, FALSE, "list") /\ UNCHANGED result

list_execute(p) ==
    /\ pc[p] = "list"
    /\ Execute(p)
    /\ \E cur \in LIST_CONVERSATIONS_STATEMENT(table, key[p][1]) :
          Finish(p, Return([i \in DOMAIN cur.rows |->
                               [conversation_id |-> cur.rows[i][1],
                                topic_summary |-> cur.rows[i][2]]]))
    /\ UNCHANGED <<capacity, conn, limiter, table, now, op, key, entry, topic, skip, old_value,
                   count, calls, failures, ghost>>

\* ------------------------------------------------------ backend failures --
StatementPcs ==
    {"get_select", "select", "update", "insert", "count", "evict", "delete",
     "list"}

\* Faulty variant: the failed statement is sent again
statement_retried(p) ==
    /\ pc[p] \in StatementPcs
    /\ failures < MaxFailures
    /\ failures' = failures + 1
    /\ executed' = [executed EXCEPT ![p] = @ + 1]
    /\ status' = transaction_status(autocommit, FALSE)
    /\ UNCHANGED <<capacity, conn, limiter, table, now, pc, op, key, entry, topic,
                   skip, old_value, count, result, calls, ghost>>

\* The statement the worker is about to execute raises a DatabaseError
\* (connection lost, statement cancelled, ...): nothing is written by it,
\* and the except clause of the method turns it into CacheError.
statement_fails(p) ==
    /\ pc[p] \in StatementPcs
    /\ failures < MaxFailures
    /\ failures' = failures + 1
    /\ executed' = [executed EXCEPT ![p] = @ + 1]
    /\ status' = transaction_status(autocommit, FALSE)
    /\ Finish(p, Raise("CacheError"))
    /\ dirty' = [k \in Keys |->
                   IF k = key[p] /\ pc[p] \in {"count", "evict"} /\ k \in DOMAIN table
                   THEN TRUE ELSE dirty[k]]
    /\ pure' = (pure /\ pc[p] \notin {"count", "evict"})
    /\ inserted' = IF pure' THEN inserted ELSE <<>>
    /\ UNCHANGED <<capacity, conn, limiter, table, now, op, key, entry, topic, skip, old_value,
                   count, calls, before, evicted, hist, written>>

\* The caller has seen the outcome; the worker is free again.
finish(p) ==
    /\ pc[p] = "done"
    /\ pc' = [pc EXCEPT ![p] = "idle"]
    /\ op' = [op EXCEPT ![p] = "none"]
    /\ key' = [key EXCEPT ![p] = NoKey]
    /\ entry' = [entry EXCEPT ![p] = NoEntry]
    /\ topic' = [topic EXCEPT ![p] = 0]
    /\ skip' = [skip EXCEPT ![p] = FALSE]
    /\ executed' = [executed EXCEPT ![p] = 0]
    /\ old_value' = [old_value EXCEPT ![p] = None]
    /\ count' = [count EXCEPT ![p] = 0]
    /\ result' = [result EXCEPT ![p] = NoResult]
    /\ before' = [before EXCEPT ![p] = NoTable]
    /\ evicted' = [evicted EXCEPT ![p] = NoTable]
    /\ UNCHANGED <<capacity, conn, status, limiter, table, now, calls, failures, hist,
                   dirty, written, inserted, pure>>

\* ------------------------------------------------------- specifications --
Step(p) ==
    \/ get_select(p)
    \/ insert_select(p)
    \/ insert_update(p)
    \/ insert_insert(p)
    \/ cleanup_count(p)
    \/ cleanup_delete(p)
    \/ delete_execute(p)
    \/ list_execute(p)
    \/ statement_fails(p)
    \/ finish(p)

\* Calls made one after another: a call starts only when none is running.
Next ==
    \E p \in {"w1"} :
        \/ AllIdle /\ get(p)
        \/ AllIdle /\ insert_or_append(p)
        \/ AllIdle /\ delete(p)
        \/ AllIdle /\ list(p)
        \/ Step(p)

Spec == Init /\ [][Next]_vars

\* Another client of the database (an older release, an operator) leaves a
\* value that this code did not write; at most one row at a time.
foreign_write ==
    /\ \A j \in DOMAIN table : WellFormed(table[j].value)
    /\ \E k \in DOMAIN table, b \in {NULL, Garbage} :
          table' = [table EXCEPT ![k].value = b]
    /\ UNCHANGED <<capacity, conn, status, limiter, now, locals, calls, failures,
                   ghost>>

\* Sequential calls on a table that is shared with other writers.
NextShared ==
    \/ Next
    \/ AllIdle /\ foreign_write

SpecShared == Init /\ [][NextShared]_vars

\* Calls of different workers overlap, statement by statement; the backend
\* stays healthy and skip_user_id_check keeps its default.
StepConc(p) ==
    \/ insert_select(p)
    \/ insert_update(p)
    \/ insert_insert(p)
    \/ cleanup_count(p)
    \/ cleanup_delete(p)
    \/ delete_execute(p)
    \/ finish(p)

NextConc ==
    \E p \in Procs :
        \/ calls < MaxConcCalls /\ insert_or_append_with(p, {FALSE})
        \/ calls < MaxConcCalls /\ delete(p)
        \/ StepConc(p)

SpecConc == Init /\ [][NextConc]_vars

\* The table after the keys of ks were created one after another, by calls
\* that have all returned; their entries are numbered below zero.
WarmTable(ks) ==
    [k \in Range(ks) |->
        LET i == CHOOSE i \in DOMAIN ks : ks[i] = k
        IN  [value |-> json_dumps(<<to_dict(Turn(0 - i))>>),
             topic_summary |-> Summary(0 - i),
             updated_at |-> i]]

\* Two records are in place (fewer when capacity does not hold two) and no
\* call is running.
InitWarm ==
    /\ quota = [s \in Subjects |-> 0]
    /\ policy = "clamp"
    /\ capacity \in Capacities
    /\ connection = "open"
    /\ link = "up"
    /\ was = "open"
    /\ polled = "POLL_OK"
    /\ autocommit = TRUE
    /\ status = "IDLE"
    /\ \E ks \in UNION {[1..n -> Keys] : n \in 0..2} :
          /\ \A i, j \in DOMAIN ks : i # j => ks[i] # ks[j]
          /\ Len(ks) = Min(2, IF capacity > 0 THEN capacity ELSE 0)
          /\ table = WarmTable(ks)
          /\ now = Len(ks)
          /\ hist = [k \in Keys |->
                        IF k \in Range(ks)
                        THEN json_loads(WarmTable(ks)[k].value)
                        ELSE <<>>]
          /\ written = [k \in Keys |->
                           IF k \in Range(ks)
                           THEN WarmTable(ks)[k].updated_at ELSE 0]
    /\ pc = [p \in Procs |-> "idle"]
    /\ op = [p \in Procs |-> "none"]
    /\ key = [p \in Procs |-> NoKey]
    /\ entry = [p \in Procs |-> NoEntry]
    /\ topic = [p \in Procs |-> 0]
    /\ skip = [p \in Procs |-> FALSE]
    /\ executed = [p \in Procs |-> 0]
    /\ old_value = [p \in Procs |-> None]
    /\ count = [p \in Procs |-> 0]
    /\ result = [p \in Procs |-> NoResult]
    /\ calls = 0
    /\ failures = 0
    /\ before = [p \in Procs |-> NoTable]
    /\ evicted = [p \in Procs |-> NoTable]
    /\ dirty = [k \in Keys |-> FALSE]
    /\ inserted = <<>>
    /\ pure = FALSE

\* Overlapping insert_or_append calls on a table that already holds records.
NextWarm ==
    \E p \in Procs :
        \/ calls < MaxWarmCalls /\ insert_or_append_with(p, {FALSE})
        \/ insert_select(p)
        \/ insert_update(p)
        \/ insert_insert(p)
        \/ cleanup_count(p)
        \/ cleanup_delete(p)
        \/ finish(p)

SpecWarm == InitWarm /\ [][NextWarm]_vars

\* ------------------------------------------------------------ connection --
Absent == "absent"
True == Some(TRUE)
False == Some(FALSE)

\* psycopg2.connect(...): a handle, or OperationalError
psycopg2_connect(lnk) ==
    IF lnk = "up" THEN {"ok", "OperationalError"} ELSE {"OperationalError"}

\* Faulty variant: the table is created anew
CREATE_CACHE_TABLE_anew(tbl) == Cursor(NoTable, FALSE, <<>>)

\* CREATE TABLE IF NOT EXISTS on a database that has the table: a notice,
\* and the table as it is
CREATE_CACHE_TABLE(tbl) == Cursor(tbl, FALSE, <<>>)

\* CREATE INDEX IF NOT EXISTS on a table that has the index
CREATE_INDEX(tbl) == Cursor(tbl, FALSE, <<>>)

\* initialize_cache: how many statements were sent and what was raised
initialize_cache ==
    { [exc |-> "", sent |-> 2] }
      \cup { [exc |-> e, sent |-> n] :
                e \in {"OperationalError", "ProgrammingError"}, n \in 1..2 }

\* Faulty variant: self.connection is not reset before the attempt
connect_keeps_handle(old, opened, init) ==
    IF opened # "ok" THEN old
    ELSE IF init.exc # "" THEN "closed"
    ELSE "open"

\* self.connection after connect(): None first, then the new handle, which
\* is closed again when initialize_cache raises
connect_handle(old, opened, init) ==
    IF opened # "ok" THEN Absent
    ELSE IF init.exc # "" THEN "closed"
    ELSE "open"

\* Faulty variant: autocommit is never switched on
connect_without_autocommit(opened, init) == FALSE

\* autocommit of self.connection after connect(): a new handle has it off,
\* and the last line of connect, reached when nothing was raised, sets it
connect_autocommit(opened, init) == opened = "ok" /\ init.exc = ""

\* The session after initialize_cache: its statements run in a transaction,
\* which the commit at the end closes; a statement that raises leaves the
\* transaction failed.
initialize_status(init) == IF init.exc = "" THEN "IDLE" ELSE "INERROR"

\* connection.close() ends the session and with it any open transaction
close(st) == "IDLE"

\* The table after initialize_cache: both statements and the commit, or
\* nothing when a statement raised and the handle was closed uncommitted
initialize_table(tbl, init) ==
    IF init.exc = "" THEN CREATE_INDEX(CREATE_CACHE_TABLE(tbl).tbl).tbl ELSE tbl

\* The session of self.connection after connect()
connect_status(opened, init) ==
    IF opened # "ok" THEN "IDLE"
    ELSE IF init.exc # "" THEN close(initialize_status(init))
    ELSE initialize_status(init)

\* A method that runs to its end in one step.
Whole(p, o, r, n) ==
    /\ pc[p] = "idle"
    /\ pc' = [pc EXCEPT ![p] = "done"]
    /\ op' = [op EXCEPT ![p] = o]
    /\ result' = [result EXCEPT ![p] = r]
    /\ executed' = [executed EXCEPT ![p] = n]
    /\ before' = [before EXCEPT ![p] = table]
    /\ UNCHANGED <<capacity, link, limiter, now, key, entry, topic, skip,
                   old_value, count, calls, failures, evicted, hist, dirty,
                   written, inserted, pure>>

connect(p) ==
    \E opened \in psycopg2_connect(link), init \in initialize_cache :
        /\ connection' = connect_handle(connection, opened, init)
        /\ was' = connection
        /\ autocommit' = connect_autocommit(opened, init)
        /\ status' = connect_status(opened, init)
        /\ table' = IF opened = "ok" THEN initialize_table(table, init) ELSE table
        /\ UNCHANGED polled
        /\ Whole(p, "connect",
                 IF opened # "ok" THEN Raise(opened)
                 ELSE IF init.exc # "" THEN Raise(init.exc)
                 ELSE Return(None),
                 IF opened # "ok" THEN 0 ELSE init.sent)

\* connection.cursor() raises InterfaceError on a closed handle; a failed
\* SELECT 1 raises OperationalError
connected_result(handle, lnk) ==
    IF handle = Absent THEN Return(False)
    ELSE IF handle \in {"closed", "broken"} THEN Raise("InterfaceError")
    ELSE IF lnk = "up" THEN Return(True)
    ELSE Return(False)

\* the probe that fails may leave the handle marked as broken
connected(p) ==
    /\ Whole(p, "connected", connected_result(connection, link),
             IF connection = "open" THEN 1 ELSE 0)
    /\ connection' \in IF connection = "open" /\ link = "down"
                        THEN {"open", "broken"} ELSE {connection}
    /\ status' = IF connection = "open"
                 THEN transaction_status(autocommit, link = "up")
                 ELSE status
    /\ UNCHANGED <<was, polled, autocommit, table>>

\* connection.poll() of a handle
poll(handle, lnk) ==
    IF handle \in {"closed", "broken"} THEN {"InterfaceError"}
    ELSE IF lnk = "up" THEN {"POLL_OK"}
    ELSE {"POLL_OK", "OperationalError"}

\* Faulty variant: the value of poll() is not compared with POLL_OK
ready_ignores_poll(handle, outcome) ==
    IF handle = Absent \/ handle = "closed" THEN FALSE
    ELSE outcome \notin {"InterfaceError"}

ready_result(handle, outcome) ==
    IF handle = Absent \/ handle = "closed" THEN FALSE
    ELSE IF outcome \in {"OperationalError", "InterfaceError"} THEN FALSE
    ELSE outcome = "POLL_OK"

ready(p) ==
    /\ polled' \in poll(connection, link)
    /\ Whole(p, "ready", Return(Some(ready_result(connection, polled'))), 0)
    /\ UNCHANGED <<connection, was, autocommit, status, table>>

\* The backend goes away, or comes back.
backend_changes ==
    /\ link' = IF link = "up" THEN "down" ELSE "up"
    /\ UNCHANGED <<capacity, connection, was, polled, autocommit, status, limiter,
                   table, now, locals, calls, failures, ghost>>

\* Calls made one after another on an instance whose connection comes and
\* goes; conversations are written while the connection is healthy.
NextConn ==
    \/ AllIdle /\ backend_changes
    \/ \E p \in {"w1"} :
        \/ AllIdle /\ connect(p)
        \/ AllIdle /\ connected(p)
        \/ AllIdle /\ ready(p)
        \/ /\ AllIdle /\ connection = "open" /\ link = "up"
           /\ calls < MaxConnCalls
           /\ insert_or_append_with(p, {FALSE})
        \/ insert_select(p)
        \/ insert_update(p)
        \/ insert_insert(p)
        \/ cleanup_count(p)
        \/ cleanup_delete(p)
        \/ finish(p)

SpecConn == Init /\ [][NextConn]_vars

\* The handle is open and the backend answers.
Usable == connection = "open" /\ link = "up"

\* Calls made one after another over the life of an instance: the connection
\* is made again after it was lost, conversations are read and written
\* while it is usable, and a statement can fail in the middle of a call.
NextSession ==
    \/ AllIdle /\ backend_changes
    \/ \E p \in {"w1"} :
        \/ AllIdle /\ connect(p)
        \/ /\ AllIdle /\ Usable /\ calls < MaxSessionCalls
           /\ insert_or_append_with(p, {FALSE})
        \/ AllIdle /\ Usable /\ calls < MaxSessionCalls /\ delete(p)
        \/ AllIdle /\ Usable /\ get(p)
        \/ AllIdle /\ Usable /\ list(p)
        \/ Step(p)

SpecSession == Init /\ [][NextSession]_vars

\* --------------------------------------------------------- quota limiter --
QuotaIncrease == 1

\* Faulty variant: the cost is subtracted whatever the balance
consume_unchecked(balance, cost, how) ==
    [exc |-> "", balance |-> balance - cost]

\* the balance after consume_tokens, and what the call raises: a cost
\* above the balance empties it or is refused, as the policy says
consume(balance, cost, how) ==
    IF cost <= balance THEN [exc |-> "", balance |-> balance - cost]
    ELSE IF how = "clamp" THEN [exc |-> "", balance |-> 0]
    ELSE [exc |-> "QuotaExceeded", balance |-> balance]

\* A method of the limiter, entry to return.
Limiter(p, o, r) ==
    /\ pc[p] = "idle"
    /\ pc' = [pc EXCEPT ![p] = "done"]
    /\ op' = [op EXCEPT ![p] = o]
    /\ result' = [result EXCEPT ![p] = r]
    /\ UNCHANGED <<capacity, conn, status, policy, table, now, key, entry, topic,
                   skip, old_value, count, executed, calls, failures, ghost>>

available_quota(p) ==
    \E s \in Subjects :
        /\ Limiter(p, "available_quota", Return(Some(quota[s])))
        /\ UNCHANGED quota

ensure_available_quota(p) ==
    \E s \in Subjects :
        /\ Limiter(p, "ensure_available_quota",
                   IF quota[s] <= 0 THEN Raise("QuotaExceeded")
                   ELSE Return(None))
        /\ UNCHANGED quota

consume_tokens(p) ==
    \E s \in Subjects, input_tokens, output_tokens \in 0..MaxTokens :
        LET r == consume(quota[s], input_tokens + output_tokens, policy)
        IN  /\ quota' = [quota EXCEPT ![s] = r.balance]
            /\ Limiter(p, "consume_tokens",
                       IF r.exc # "" THEN Raise(r.exc) ELSE Return(None))

revoke_quota(p) ==
    \E s \in Subjects :
        /\ quota' = [quota EXCEPT ![s] = 0]
        /\ Limiter(p, "revoke_quota", Return(None))

increase_quota(p) ==
    \E s \in Subjects :
        /\ quota[s] + QuotaIncrease <= MaxQuota
        /\ quota' = [quota EXCEPT ![s] = @ + QuotaIncrease]
        /\ Limiter(p, "increase_quota", Return(None))

InitQuota ==
    /\ InitCache
    /\ quota \in [Subjects -> 0..MaxQuota]
    /\ policy \in Policies

NextQuota ==
    \E p \in {"w1"} :
        \/ available_quota(p)
        \/ ensure_available_quota(p)
        \/ consume_tokens(p)
        \/ revoke_quota(p)
        \/ increase_quota(p)
        \/ finish(p)

SpecQuota == InitQuota /\ [][NextQuota]_vars

\* ======================================================================= --
\* Properties
\* ======================================================================= --
Rows == DOMAIN table
Size == Cardinality(Rows)
IsDone(p, o) == pc[p] = "done" /\ op[p] = o
Returned(p) == result[p].kind = "return"
\* what get returns for key k on a healthy backend
Stored(k) ==
    IF k \in Rows
    THEN LET l == json_loads(table[k].value)
         IN  [i \in 1..Len(l) |-> from_dict(l[i])]
    ELSE <<>>
\* worker p completes the eviction DELETE in this step
EvictionStep(p) ==
    pc[p] = "evict" /\ pc'[p] = "done" /\ result'[p].kind = "return"
Victims == Rows \ DOMAIN table'

\* C1 -- capacity invariant: with capacity >= 0, between calls made one
\* after another the table never holds more than capacity rows.
CapacityInvariant ==
    (capacity >= 0 /\ AllIdle) => Size <= capacity

\* The same bound as long as no statement has failed.
CapacityInvariantHealthy ==
    (capacity >= 0 /\ AllIdle /\ failures = 0) => Size <= capacity

\* C2 -- two overlapping insert_or_append calls that both append to the same
\* existing key: once both have returned, the row holds both entries.
ConcurrentAppendsKept ==
    \A p \in Procs : \A q \in Procs \ {p} :
        ( /\ IsDone(p, "insert_or_append") /\ IsDone(q, "insert_or_append")
          /\ Returned(p) /\ Returned(q)
          /\ key[p] = key[q]
          /\ Truthy(old_value[p]) /\ Truthy(old_value[q])
          /\ key[p] \in Rows )
        => {entry[p], entry[q]} \subseteq Range(Stored(key[p]))

\* C3 -- insert_or_append is all-or-nothing: a call that raises leaves the
\* table exactly as it was when the call started.
InsertAllOrNothing ==
    \A p \in Procs :
        (IsDone(p, "insert_or_append") /\ ~Returned(p)) => table = before[p]

\* C4 -- append ordering: after N >= 1 successful insert_or_append calls on
\* a key, with no delete or eviction of the key in between, get returns
\* exactly the N entries of those calls, in call order.
AppendOrdering ==
    \A p \in Procs :
        ( /\ IsDone(p, "get") /\ Returned(p)
          /\ hist[key[p]] # <<>> /\ ~dirty[key[p]] )
        => result[p].val = hist[key[p]]

AppendOrderingWitness ==
    \E p \in Procs :
        /\ IsDone(p, "get") /\ Returned(p)
        /\ ~dirty[key[p]]
        /\ Len(hist[key[p]]) >= 2
        /\ result[p].val = hist[key[p]]

\* C5, as claimed -- the eviction step deletes exactly N - capacity rows,
\* N the counted number of rows, and no deleted row is newer than a
\* surviving one.
EvictsExactlyOverflow ==
    [][ \A p \in Procs : EvictionStep(p) =>
          /\ Cardinality(Victims) = count[p] - capacity
          /\ \A v \in Victims : \A r \in DOMAIN table' :
                table[v].updated_at <= table[r].updated_at ]_vars

\* C5, amended -- the eviction step deletes exactly N - capacity rows when
\* capacity >= 0 and all N rows when capacity < 0, whoever owns them, and no
\* deleted row is newer than a surviving one.
EvictsOldestOverflow ==
    [][ \A p \in Procs : EvictionStep(p) =>
          /\ Cardinality(Victims) = Min(count[p], count[p] - capacity)
          /\ \A v \in Victims : \A r \in DOMAIN table' :
                table[v].updated_at <= table[r].updated_at ]_vars

\* an eviction took a row of another user than the one inserting
EvictsOldestOverflowWitness ==
    \E p \in Procs :
        /\ IsDone(p, "insert_or_append") /\ Returned(p)
        /\ capacity >= 1
        /\ \E v \in DOMAIN evicted[p] : v[1] # key[p][1]
        /\ key[p] \in Rows

\* the last n elements of seq (all of them when it is shorter)
LastK(seq, n) ==
    {seq[i] : i \in {j \in 1..Len(seq) : j > Len(seq) - n}}

\* C6 -- capacity K >= 1, distinct keys each created once by a successful
\* call into the empty cache: exactly the K most recently created keys are
\* present, the older ones are absent.
KeepsMostRecent ==
    (capacity >= 1 /\ pure /\ AllIdle) => Rows = LastK(inserted, capacity)

KeepsMostRecentWitness ==
    /\ capacity >= 1 /\ pure /\ AllIdle
    /\ Len(inserted) > capacity
    /\ Rows = LastK(inserted, capacity)

\* C7 -- append protects from eviction: an eviction never removes a row
\* that was appended to while as many rows as it removes were last written
\* before that append.
AppendProtects ==
    [][ \A p \in Procs : EvictionStep(p) =>
          \A k \in Rows :
              ( /\ Len(hist[k]) >= 2
                /\ Cardinality({j \in Rows : written[j] < written[k]})
                      >= Limit(count[p]) )
              => k \in DOMAIN table' ]_vars

\* a row created first and appended to later outlives a row created after it
AppendProtectsWitness ==
    \E p \in Procs :
        /\ IsDone(p, "insert_or_append") /\ Returned(p)
        /\ \E k \in Rows : \E v \in DOMAIN evicted[p] :
              /\ Len(hist[k]) >= 2
              /\ hist[k][1].content < json_loads(evicted[p][v].value)[1].content
              /\ evicted[p][v].updated_at < table[k].updated_at

\* C8 -- delete on a key that has a row returns true, removes the row and
\* leaves every other row unchanged.
DeleteExistingReturnsTrue ==
    \A p \in Procs :
        (IsDone(p, "delete") /\ failures = 0 /\ key[p] \in DOMAIN before[p])
        => /\ result[p] = Return(<<TRUE>>)
           /\ table = Without(before[p], {key[p]})

\* C9 -- delete on a key that has no row returns false, does not raise, and
\* leaves the table unchanged.
DeleteMissingReturnsFalse ==
    \A p \in Procs :
        (IsDone(p, "delete") /\ failures = 0 /\ key[p] \notin DOMAIN before[p])
        => /\ result[p] = Return(<<FALSE>>)
           /\ table = before[p]

ListOrdering ==
    \A p \in Procs :
        (IsDone(p, "list") /\ Returned(p)) =>
            LET l == result[p].val
                u == key[p][1]
            IN  /\ {l[i].conversation_id : i \in DOMAIN l}
                       = {k[2] : k \in {j \in Rows : j[1] = u}}
                /\ \A i, j \in DOMAIN l :
                      i < j => written[<<u, l[i].conversation_id>>]
                                  > written[<<u, l[j].conversation_id>>]
                /\ \A i \in DOMAIN l :
                      l[i].topic_summary
                          = table[<<u, l[i].conversation_id>>].topic_summary

\* list returns [X, Y] although X was created before Y: X was appended to
\* after Y was inserted, while another user's conversation is stored too.
ListOrderingWitness ==
    \E p \in Procs :
        /\ IsDone(p, "list") /\ Returned(p)
        /\ Len(result[p].val) = 2
        /\ hist[<<key[p][1], result[p].val[1].conversation_id>>][1].content
              < hist[<<key[p][1], result[p].val[2].conversation_id>>][1].content
        /\ \E k \in Rows : k[1] # key[p][1]


Malformed(k) == ~(check_suid(k[1]) /\ check_suid(k[2]))

InsertRejectsMalformed ==
    \A p \in Procs :
        (op[p] = "insert_or_append" /\ ~skip[p] /\ ~check_suid(key[p][1])) =>
            /\ pc[p] = "done"
            /\ result[p] = Raise("InvalidIdentifier")
            /\ executed[p] = 0
            /\ table = before[p]


\* C14: whatever fails inside insert_or_append -- a lost connection, a
\* constraint violation, a stored payload that cannot be decoded -- the
\* caller sees CacheError and no other exception type.
InsertRaisesOnlyCacheError ==
    \A p \in Procs :
        (IsDone(p, "insert_or_append") /\ ~Returned(p)) =>
            result[p] = Raise("CacheError")

\* C15: a get that reached the backend and failed there -- a lost
\* connection, or a stored payload that is NULL or cannot be decoded --
\* raises CacheError: no other exception type, and no empty result.
GetRaisesOnlyCacheError ==
    \A p \in Procs :
        /\ (IsDone(p, "get") /\ executed[p] > 0 /\ ~Returned(p)) =>
              result[p] = Raise("CacheError")
        /\ ( /\ IsDone(p, "get") /\ executed[p] > 0
             /\ key[p] \in Rows /\ ~WellFormed(table[key[p]].value) ) =>
              result[p] = Raise("CacheError")


\* C16: topic_summary is set when the record is created and by nothing
\* else: whatever insert_or_append calls follow for the key, with whatever
\* topic_summary, the stored one is that of the call that created the row.
\* (The creating call is the one whose entry opens the key's history, and a
\* call's entry and topic_summary carry the same ordinal.)
TopicSetOnCreate ==
    \A k \in Rows : table[k].topic_summary = Summary(hist[k][1].content)

\* an append with a different topic_summary has returned; the row keeps
\* the creating call's
TopicSetOnCreateWitness ==
    \E p \in Procs :
        /\ IsDone(p, "insert_or_append") /\ Returned(p)
        /\ key[p] \in Rows
        /\ Len(hist[key[p]]) >= 2
        /\ hist[key[p]][Len(hist[key[p]])] = entry[p]
        /\ topic[p] # table[key[p]].topic_summary
        /\ table[key[p]].topic_summary = Summary(hist[key[p]][1].content)


\* C17: a successful insert_or_append leaves its record with updated_at set
\* to the current time, so that right after the call no other record has a
\* later updated_at; and no step ever lowers a record's updated_at.
\* (With capacity <= 0 the call evicts the record it has just written, and
\* there is no record left to compare.)
UpdatedAtAdvances ==
    [][ /\ \A k \in Rows \cap DOMAIN table' :
              table'[k].updated_at >= table[k].updated_at
        /\ \A p \in Procs :
              ( /\ pc[p] # "done" /\ pc'[p] = "done"
                /\ op[p] = "insert_or_append"
                /\ result'[p].kind = "return"
                /\ key[p] \in DOMAIN table' ) =>
                  /\ table'[key[p]].updated_at = now'
                  /\ now' > 0
                  /\ \A j \in DOMAIN table' :
                        table'[key[p]].updated_at >= table'[j].updated_at
      ]_vars

\* an append has returned on a record that was the oldest of two before it
UpdatedAtAdvancesWitness ==
    \E p \in Procs :
        /\ IsDone(p, "insert_or_append") /\ Returned(p)
        /\ key[p] \in Rows /\ key[p] \in DOMAIN before[p]
        /\ \E j \in Rows \cap DOMAIN before[p] :
              /\ before[p][j].updated_at > before[p][key[p]].updated_at
              /\ table[key[p]].updated_at > table[j].updated_at


\* the worker p is about to run the DELETE of method delete on key k
DeletesKey(p, k) == pc[p] = "delete" /\ key[p] = k

\* the worker p is about to run the eviction of a call that created its key
EvictsAfterCreate(p) ==
    /\ pc[p] = "evict"
    /\ op[p] = "insert_or_append"
    /\ key[p] \notin DOMAIN before[p]

\* a step of get, of list, or of insert_or_append on an existing key
Harmless(p) ==
    \/ op[p] \in {"get", "list"}
    \/ op[p] = "insert_or_append" /\ key[p] \in DOMAIN before[p]

RecordsHaveEntries ==
    \A k \in Rows :
        /\ hist[k] # <<>>
        /\ table[k].value # NULL
        /\ WellFormed(table[k].value)
        /\ Len(json_loads(table[k].value)) >= 1

\* two records, one created and one appended to, after a call has failed
RecordsHaveEntriesWitness ==
    /\ Size = 2
    /\ failures > 0
    /\ \E k \in Rows : Len(json_loads(table[k].value)) = 1
    /\ \E k \in Rows : Len(json_loads(table[k].value)) >= 2


\* C20: there is one record per (user_id, conversation_id) that was created
\* and not removed since, holding the entries written under that pair and
\* no others; a call on one pair leaves the records of every other pair as
\* they are unless it evicts them, so the same conversation_id under two
\* user_ids gives two records that do not affect each other.
KeysIndependent ==
    [][ /\ DOMAIN table' = {k \in Keys : hist'[k] # <<>>}
        /\ \A k \in DOMAIN table' : Stored(k)' = hist'[k]
        /\ \A p \in Procs :
              pc'[p] # pc[p] =>
                  \A j \in (Rows \cap DOMAIN table') \ {key[p]} :
                      table'[j] = table[j] ]_vars

\* the same conversation_id is stored under both users, with different
\* entries, and one of the two records has been appended to
KeysIndependentWitness ==
    \E p \in Procs : \E j \in Rows :
        /\ IsDone(p, "insert_or_append") /\ Returned(p)
        /\ key[p] \in Rows
        /\ j[1] # key[p][1] /\ j[2] = key[p][2]
        /\ Len(Stored(key[p])) >= 2
        /\ Stored(j) = hist[j]
        /\ Range(Stored(j)) \cap Range(Stored(key[p])) = {}


\* two insert_or_append calls that started from the same table: neither
\* had returned when the other began
Overlapping(p, q) ==
    /\ p # q
    /\ IsDone(p, "insert_or_append") /\ IsDone(q, "insert_or_append")
    /\ before[p] = before[q]

\* C21: two overlapping insert_or_append calls for the same key, which has
\* no record yet, both succeed, and the one record holds both entries:
\* no duplicate-key error and no lost entry.  (capacity >= 1, so that the
\* record is not evicted by its own creation.)
ConcurrentCreatesKept ==
    \A p, q \in Procs :
        ( /\ Overlapping(p, q)
          /\ key[p] = key[q]
          /\ key[p] \notin DOMAIN before[p]
          /\ capacity >= 1 )
        => /\ Returned(p) /\ Returned(q)
           /\ key[p] \in Rows
           /\ {entry[p], entry[q]} \subseteq Range(Stored(key[p]))

\* the value of key k in tbl with entry e appended
Appended(tbl, k, e) == json_dumps(append(json_loads(tbl[k].value), to_dict(e)))

\* C22: insert_or_append calls on different existing keys do not block each
\* other: a call that has started can always take its next step, whatever
\* the other has done; and once two overlapping calls have finished each
\* record holds what it held before plus its own call's entry.
DifferentKeysDoNotBlock ==
    /\ \A p \in Procs : pc[p] # "idle" => ENABLED StepConc(p)
    /\ \A p, q \in Procs :
          ( /\ Overlapping(p, q)
            /\ key[p] # key[q]
            /\ {key[p], key[q]} \subseteq DOMAIN before[p] )
          => /\ Returned(p) /\ Returned(q)
             /\ {key[p], key[q]} \subseteq Rows
             /\ table[key[p]].value = Appended(before[p], key[p], entry[p])
             /\ table[key[q]].value = Appended(before[q], key[q], entry[q])

\* two overlapping appends on the same conversation_id of two users are done
DifferentKeysDoNotBlockWitness ==
    \E p, q \in Procs :
        /\ Overlapping(p, q)
        /\ key[p][1] # key[q][1] /\ key[p][2] = key[q][2]
        /\ {key[p], key[q]} \subseteq DOMAIN before[p]
        /\ table[key[p]].value = Appended(before[p], key[p], entry[p])
        /\ table[key[q]].value = Appended(before[q], key[q], entry[q])


\* every call that was started has finished
Quiet == \A p \in Procs : pc[p] \in {"idle", "done"}

\* some finished call created its key while another call was running
CreatedConcurrently ==
    \E p, q \in Procs :
        /\ p # q
        /\ IsDone(p, "insert_or_append") /\ Returned(p)
        /\ ~Truthy(old_value[p])
        /\ op[q] = "insert_or_append" /\ pc[q] = "done"
        /\ key[p] # key[q]
        /\ key[q] \notin DOMAIN before[p] /\ key[p] \notin DOMAIN before[q]

\* C23 as claimed: once all overlapping calls have finished, the table
\* holds at most capacity records.
EvictionConverges ==
    (Quiet /\ \E p \in Procs : IsDone(p, "insert_or_append")) =>
        Size <= capacity

\* C23, amended: once all overlapping calls have finished, the table holds
\* at most capacity records, and none when capacity is negative.
EvictionConvergesToBound ==
    Quiet => Size <= (IF capacity > 0 THEN capacity ELSE 0)

\* two calls that created different keys while both were running have
\* finished, and the table is at its bound
EvictionConvergesToBoundWitness ==
    /\ Quiet
    /\ CreatedConcurrently
    /\ \A p \in Procs : evicted[p] # NoTable
    /\ Size <= capacity


\* C24: eviction removes whole records only: no step of an insert_or_append
\* changes the entry list or the topic_summary of a record of another user
\* that is still there after the step, also when calls overlap.
OtherUsersUntouched ==
    [][ \A p \in Procs :
          (op[p] = "insert_or_append" /\ pc'[p] # pc[p]) =>
              \A j \in Rows \cap DOMAIN table' :
                  j[1] # key[p][1] =>
                      /\ table'[j].value = table[j].value
                      /\ table'[j].topic_summary = table[j].topic_summary
      ]_vars

\* a call of one user has evicted a record while a record of another user,
\* untouched, is still there
OtherUsersUntouchedWitness ==
    \E p \in Procs : \E j \in Rows :
        /\ IsDone(p, "insert_or_append") /\ Returned(p)
        /\ evicted[p] # NoTable
        /\ j[1] # key[p][1]
        /\ j \in DOMAIN before[p]
        /\ table[j].value = before[p][j].value
        /\ Stored(j) = hist[j]


\* C25: when opening the connection fails -- connect() raises before any
\* statement was sent -- the instance is left with no handle and the
\* failure reaches the caller, also when the instance held a live
\* connection before.
ConnectFailureDisconnects ==
    \A p \in Procs :
        (IsDone(p, "connect") /\ ~Returned(p) /\ executed[p] = 0) =>
            /\ connection = Absent
            /\ result[p] = Raise("OperationalError")

\* connect() has failed to open on an instance whose connection was live
ConnectFailureDisconnectsWitness ==
    \E p \in Procs :
        /\ IsDone(p, "connect") /\ ~Returned(p) /\ executed[p] = 0
        /\ was = "open"
        /\ connection = Absent
        /\ Rows # {}

\* C26: when schema initialization fails during connect, the connection is
\* closed and the failure re-raised; connect returns normally only with an
\* open, initialized connection; and afterwards ready() and connected()
\* both report false.
InitFailureDisconnects ==
    \A p \in Procs :
        /\ (IsDone(p, "connect") /\ Returned(p)) =>
              (connection = "open" /\ executed[p] = 2)
        /\ (IsDone(p, "connect") /\ ~Returned(p) /\ executed[p] > 0) =>
              (connection = "closed" /\ result[p].kind # "return")
        /\ ((IsDone(p, "ready") \/ IsDone(p, "connected"))
               /\ connection = "closed") =>
              result[p] = Return(False)

\* C27: connected() never raises: with no handle, a closed handle, an
\* unreachable backend or a failing probe it returns false, and it returns
\* true only when the probe went through.
ConnectedNeverRaises ==
    \A p \in Procs :
        IsDone(p, "connected") =>
            /\ Returned(p)
            /\ (connection # "open" \/ link # "up") => result[p] = Return(False)
            /\ result[p] = Return(True) => executed[p] = 1

\* C28: ready() returns false when there is no handle, when the handle is
\* closed and when the backend cannot be polled, true only for an open
\* handle whose poll can report OK; it sends no statement and leaves the
\* handle and the table as they are.
ReadyIsCheap ==
    [][ \A p \in Procs :
          (pc[p] = "idle" /\ op'[p] = "ready") =>
              /\ connection' = connection
              /\ table' = table
              /\ executed'[p] = 0
              /\ result'[p] \in {Return(True), Return(False)}
              /\ connection \in {Absent, "closed", "broken"} =>
                    result'[p] = Return(False)
              /\ result'[p] = Return(True) =>
                    (connection = "open" /\ polled' = "POLL_OK")
              /\ polled' \in {"OperationalError", "InterfaceError"} =>
                    result'[p] = Return(False)
              /\ (connection = "open" /\ link = "up") =>
                    result'[p] = Return(True) ]_vars

\* ready() has reported false for an open handle whose backend is gone,
\* with conversations stored
ReadyIsCheapWitness ==
    \E p \in Procs :
        /\ IsDone(p, "ready")
        /\ result[p] = Return(False)
        /\ connection = "open" /\ link = "down"
        /\ polled = "OperationalError"
        /\ Rows # {}
        /\ table = before[p]


\* C29: with capacity <= 0 the same arithmetic applies: every successful
\* insert_or_append that creates a record evicts that record with all the
\* others, so the table is empty after the call, and a get on the key
\* just inserted returns the empty sequence.
NonPositiveCapacityKeepsNothing ==
    \A p \in Procs :
        capacity <= 0 =>
            /\ ( /\ IsDone(p, "insert_or_append") /\ Returned(p)
                 /\ key[p] \notin DOMAIN before[p] ) =>
                  /\ key[p] \in DOMAIN evicted[p]
                  /\ Rows = {}
            /\ ( /\ IsDone(p, "get") /\ Returned(p)
                 /\ failures = 0 ) =>
                  result[p] = Return(<<>>)

\* with capacity <= 0, a get on the key created last has returned
NonPositiveCapacityKeepsNothingWitness ==
    \E p \in Procs :
        /\ capacity <= 0
        /\ IsDone(p, "get") /\ Returned(p)
        /\ inserted # <<>>
        /\ key[p] = inserted[Len(inserted)]
        /\ result[p] = Return(<<>>)


\* C30: quota non-negativity: whatever consume_tokens, revoke_quota and
\* increase_quota calls were made, for whatever subjects, available_quota
\* never returns a negative value; a cost above the balance empties the
\* balance or is refused, always the same way.
QuotaNonNegative ==
    /\ \A s \in Subjects : quota[s] >= 0
    /\ \A p \in Procs :
          (IsDone(p, "available_quota") /\ Returned(p)) =>
              result[p].val[1] >= 0
    /\ \A p \in Procs :
          (IsDone(p, "consume_tokens") /\ ~Returned(p)) => policy = "fail"

\* a consumption above the balance was refused and has left the balance
\* where it was, above zero
QuotaNonNegativeWitness ==
    \E p \in Procs : \E s \in Subjects :
        /\ IsDone(p, "consume_tokens")
        /\ result[p] = Raise("QuotaExceeded")
        /\ quota[s] > 0
        /\ \E t \in Subjects : quota[t] = 0

\* the entry list l, encoded as insert_or_append encodes it and decoded as
\* get decodes it
RoundTrip(l) ==
    LET d == json_loads(json_dumps([i \in 1..Len(l) |-> to_dict(l[i])]))
    IN  [i \in 1..Len(d) |-> from_dict(d[i])]

\* C31: round-trip safety.  Encoding and decoding an entry list gives the
\* same list, also after any number of load, append, store cycles: every
\* record decodes to exactly the entries that were passed in for it, in the
\* order of the calls, its stored bytes survive one more decode and encode
\* unchanged, and a get that returns gives exactly those entries.
RoundTripSafe ==
    /\ \A k \in Keys :
          /\ RoundTrip(hist[k]) = hist[k]
          /\ Stored(k) = hist[k]
    /\ \A k \in Rows :
          /\ WellFormed(table[k].value)
          /\ json_dumps(json_loads(table[k].value)) = table[k].value
    /\ \A p \in Procs :
          (IsDone(p, "get") /\ Returned(p)) => result[p].val = hist[key[p]]

\* a get has returned three entries of both roles, stored by one creation
\* and two load, append, store cycles
RoundTripSafeWitness ==
    \E p \in Procs :
        /\ IsDone(p, "get") /\ Returned(p)
        /\ Len(result[p].val) = 3
        /\ result[p].val = hist[key[p]]
        /\ {result[p].val[i].role : i \in 1..3} = {"human", "ai"}

\* C32: eviction is triggered only on the insert branch.  No step of an
\* insert_or_append on a key that had a record when the call began leads to
\* the INSERT, the count or the eviction DELETE; the call sends at most the
\* SELECT and the UPDATE; the set of records stays as it is; and nothing
\* changes but the entry list and updated_at of that record.
EvictionOnlyOnInsert ==
    [][ \A p \in Procs :
          (op[p] = "insert_or_append" /\ key[p] \in DOMAIN before[p]) =>
              /\ pc'[p] \notin {"insert", "count", "evict"}
              /\ executed'[p] <= 2
              /\ DOMAIN table' = Rows
              /\ \A j \in Rows \ {key[p]} : table'[j] = table[j]
              /\ table'[key[p]].topic_summary = table[key[p]].topic_summary
      ]_vars

\* an append has returned on a table that holds more records than capacity
\* allows (an earlier creation failed before its eviction), and all of them
\* are still there
EvictionOnlyOnInsertWitness ==
    \E p \in Procs :
        /\ IsDone(p, "insert_or_append") /\ Returned(p)
        /\ key[p] \in DOMAIN before[p]
        /\ capacity >= 1 /\ Size > capacity
        /\ Rows = DOMAIN before[p]
        /\ table[key[p]].updated_at > before[p][key[p]].updated_at
        /\ Len(Stored(key[p])) = 2

\* C33: no operation leaves a transaction open.  Whenever no call is in
\* progress (each of connect, get, insert_or_append, delete and list has
\* returned or raised), the session of the connection has no transaction in
\* progress, committed later by another call or holding locks.
NoOpenTransaction == Quiet => status = "IDLE"

\* an insert_or_append has raised after its INSERT was committed, on a
\* connection made by a connect() that followed a failed one
NoOpenTransactionWitness ==
    \E p \in Procs :
        /\ IsDone(p, "insert_or_append")
        /\ result[p].kind = "CacheError"
        /\ key[p] \in Rows \ DOMAIN before[p]
        /\ was # "open"
        /\ autocommit

\* the place of each statement in the text of its method
Rank(at) ==
    CASE at \in {"get_select", "select", "delete", "list"} -> 1
      [] at \in {"update", "insert"} -> 2
      [] at = "count" -> 3
      [] at = "evict" -> 4
      [] OTHER -> 5

ConnectReturns ==
    \E p \in Procs : connect(p) /\ result'[p] = Return(None)

\* C35: schema initialization is idempotent.  On a store that has the
\* cache table and the index, a connect() can succeed whenever the backend
\* can be reached, and a connect(), returning or raising, leaves every
\* record as it was: same keys, same entries, topic_summary and updated_at.
InitializeIdempotent ==
    /\ [](AllIdle /\ link = "up" => ENABLED ConnectReturns)
    /\ [][ \A p \in Procs :
             (pc[p] = "idle" /\ op'[p] = "connect") => table' = table ]_vars

\* a connect() has returned on a table that holds two records, and they
\* are the records that were there before
InitializeIdempotentWitness ==
    \E p \in Procs :
        /\ IsDone(p, "connect") /\ Returned(p)
        /\ connection = "open" /\ autocommit
        /\ Size = 2
        /\ table = before[p]

\* C36: a successful insert_or_append is never a silent no-op.  When the
\* write step of a call (its UPDATE or its INSERT) raises nothing, the
\* record of the key holds the entry right after that step, whatever
\* overlapping delete calls and evictions did before it; only a delete or
\* an eviction that comes later can take it away again.
WriteTakesEffect ==
    [][ \A p \in Procs :
          ( /\ pc[p] \in {"update", "insert"}
            /\ pc'[p] # pc[p]
            /\ result'[p].kind \in {"none", "return"} )
          => entry[p] \in Range(Stored(key[p])') ]_vars

\* C37: eviction never over-evicts under concurrency.  The table held
\* exactly capacity records (capacity >= 1) when the insert_or_append calls
\* of the workers in S, the only calls made, began; they created distinct
\* new keys and have all returned: exactly capacity records remain.
NeverOverEvicts ==
    \A S \in (SUBSET Procs) \ {{}} :
        ( /\ capacity >= 1
          /\ calls = Cardinality(S)
          /\ Quiet
          /\ \A p \in S :
                /\ IsDone(p, "insert_or_append") /\ Returned(p)
                /\ key[p] \notin DOMAIN before[p]
                /\ Cardinality(DOMAIN before[p]) = capacity
          /\ \A p, q \in S :
                /\ before[p] = before[q]
                /\ p # q => key[p] # key[q] )
        => Size = capacity

Touched == {j \in Rows \cap DOMAIN table' : table'[j] # table[j]}

\* C39: in sequential execution insert_or_append is on its insert branch
\* exactly when the key has no record and on its update branch exactly when
\* it has one; so the INSERT, unless the backend fails, adds one row and
\* meets no duplicate key, and the UPDATE changes exactly the row of the
\* key, after any sequence of insert_or_append and delete calls.
BranchMatchesRecord ==
    /\ [](\A p \in Procs :
            /\ pc[p] = "insert" => key[p] \notin Rows
            /\ pc[p] = "update" => key[p] \in Rows)
    /\ [][ \A p \in Procs :
             (pc'[p] # pc[p] /\ failures' = failures) =>
                 /\ pc[p] = "insert" =>
                       /\ pc'[p] = "count"
                       /\ DOMAIN table' = Rows \cup {key[p]}
                       /\ Touched = {}
                 /\ pc[p] = "update" =>
                       /\ result'[p] = Return(None)
                       /\ DOMAIN table' = Rows
                       /\ Touched = {key[p]} ]_vars

\* the key was created on the insert branch by the third call and appended
\* to on the update branch by the fourth, next to another conversation of
\* the same user
BranchMatchesRecordWitness ==
    \E p \in Procs :
        /\ IsDone(p, "insert_or_append") /\ Returned(p)
        /\ Truthy(old_value[p])
        /\ Len(Stored(key[p])) = 2
        /\ Stored(key[p])[1].content = 3
        /\ \E j \in Rows : j[1] = key[p][1] /\ j[2] # key[p][2]

====
